---- MODULE Spec2Model ----
(***************************************************************************)
(* ryzenmon: AMD RAPL power sampler (src/src/main.rs).                     *)
(*                                                                         *)
(* The model follows main(): load_config, detect_packages, then the        *)
(* endless loop of worker() = rapl_msr_amd_core() + upload(), with the     *)
(* 10 s sleep between cycles.  The environment (the configuration file,    *)
(* the sysfs topology files, the MSR devices and the telemetry sink) is    *)
(* nondeterministic: every open, read and write may succeed or fail, and   *)
(* so may every line the program prints: println! and eprintln! panic when *)
(* stdout, resp. stderr, cannot be written, which ends the process.        *)
(*                                                                         *)
(* f64 values are modelled as dyadic rationals m * 2^e (see the Dyadic     *)
(* section).  Every raw counter the model feeds in is far below 2^53 in    *)
(* magnitude, so each f64 operation of the code is exact on these inputs   *)
(* and the dyadic value is the f64 value.                                  *)
(***************************************************************************)
EXTENDS Integers, Sequences, FiniteSets, TLC

\* ------------------------------------------------------------------ bounds
\* Number of /sys/devices/system/cpu/cpuN entries the environment may hold
\* (every index at or beyond it is unreadable).
MaxCpuFiles == 4
\* Number of sampling cycles explored (the loop itself is endless).
MaxCycles == 2

\* ------------------------------------------------------- program constants
AMD_MSR_PWR_UNIT == "0xC0010299"
AMD_MSR_CORE_ENERGY == "0xC001029A"
AMD_MSR_PACKAGE_ENERGY == "0xC001029B"
AMD_ENERGY_UNIT_MASK == 7936       \* 0x1F00
MAX_CPUS == 1024
MAX_PACKAGES == 16
I32_MAX == 2147483647
I32_MIN == (0 - 2147483647) - 1

\* Absent results and markers are the string "None"; an optional value
\* (Option<T>, or a local not yet assigned) is << >> or <<x>>.
None == "None"
Nil == << >>
Some(x) == << x >>
Get(o) == o[1]

\* What std::fs::read_to_string gives for a topology file.
Unreadable == [readable |-> FALSE, contents |-> << >>]
FileWith(c) == [readable |-> TRUE, contents |-> c]

\* ------------------------------------------------------------ environment
\* Contents of a physical_package_id file, one Unicode scalar value per
\* element (a file that is not UTF-8 makes read_to_string fail and counts
\* as unreadable): "15\n", the last package id that fits the map;
\* "\f15" followed by U+00A0, the same id between other white space;
\* "16\n", the first id that does not fit; "-1\n"; "-2147483648\n"
\* (i32::MIN); and "x\n", no number.
FileContents ==
  { <<49, 53, 10>>, <<12, 49, 53, 160>>, <<49, 54, 10>>, <<45, 49, 10>>,
    <<45, 50, 49, 52, 55, 52, 56, 51, 54, 52, 56, 10>>, <<120, 10>> }

\* The topology directory: what reading cpu<k>'s file gives, k = index - 1.
Topologies ==
  [1..MaxCpuFiles -> {FileWith(c) : c \in FileContents} \cup {Unreadable}]

\* Raw values the energy counters may show (i64).
RawValues == {1000, 2000}

\* Raw values the power-unit register may show (i64): 0, 0x0A00, 0xEAFF
\* (same bits 8-12 as 0x0A00, every other low bit set), -1 (all 64 bits
\* set) and 0x10300 (a bit above the mask set).
PwrUnitValues == {0, 2560, 60159, -1, 66304}

ConfigStates == {"missing", "malformed", "ok"}
CreateOutcomes == {"create_failed", "write_failed", "written"}
WriteOutcomes == {"ok", "write_err"}

VARIABLES
  pc,                 \* position of the single task
  cfg,                \* state of /etc/ryzenmon/config.toml
  topo,               \* the sysfs topology files
  i,                  \* loop index of the running for-loop
  package_map,        \* detect_packages: first core seen per package
  total_cores,        \* detect_packages: local counter
  cores,              \* main: detected core count
  cycle,              \* number of rapl_msr_amd_core calls started
  files,              \* rapl_msr_amd_core: Vec<File> of open handles
  energy_unit_d,      \* rapl_msr_amd_core: the energy unit, once decoded
  core_energy_raw,    \* rapl_msr_amd_core: loop-local first reading
  core_energy, package, core_energy_delta, package_delta,
  metrics,            \* the PowerMetrics value alive in worker or upload
  reads,              \* the read_msr calls of the current cycle, in order
  sampleRes,          \* result of rapl_msr_amd_core in the current cycle
  workerRes,          \* result of worker in the current cycle
  failed,             \* an open or read failed in the current cycle
  uploadCalls,        \* upload calls in the current cycle
  uploadRes,          \* outcome of the upload call of the current cycle
  written,            \* points of the current cycle the sink holds
  panicAt,            \* function that panicked, or None
  exitCode            \* process exit code, once the process has ended

vars == << pc, cfg, topo, i, package_map, total_cores, cores, cycle, files,
           energy_unit_d, core_energy_raw, core_energy, package,
           core_energy_delta, package_delta, metrics, reads, sampleRes,
           workerRes, failed, uploadCalls, uploadRes, written, panicAt,
           exitCode >>

\* ------------------------------------------------------------------ Dyadic
\* An f64 as m * 2^e, normalised: m odd, or m = 0 and e = 0.
RECURSIVE Norm(_)
Norm(x) ==
  IF x.m = 0 THEN [m |-> 0, e |-> 0]
  ELSE IF x.m % 2 = 0 THEN Norm([m |-> x.m \div 2, e |-> x.e + 1])
  ELSE x

RECURSIVE Pow2(_)
Pow2(k) == IF k = 0 THEN 1 ELSE 2 * Pow2(k - 1)

MinOf(a, b) == IF a < b THEN a ELSE b

\* `x as f64` for an i64 x (exact for |x| < 2^53).
AsF64(x) == Norm([m |-> x, e |-> 0])

Zero == AsF64(0)
Ten == AsF64(10)

FMul(a, b) == Norm([m |-> a.m * b.m, e |-> a.e + b.e])

FAdd(a, b) ==
  IF a.m = 0 THEN b
  ELSE IF b.m = 0 THEN a
  ELSE LET e == MinOf(a.e, b.e)
       IN Norm([m |-> a.m * Pow2(a.e - e) + b.m * Pow2(b.e - e), e |-> e])

FNeg(a) == [m |-> 0 - a.m, e |-> a.e]

FSub(a, b) == FAdd(a, FNeg(b))

\* 0.5f64.powf(k as f64) for an integer k >= 0: exactly 2^-k.
PowfHalf(k) == [m |-> 1, e |-> 0 - k]

\* ------------------------------------------------- text and bit helpers
\* A char is its Unicode scalar value.  char::is_whitespace: the code points
\* with the White_Space property (U+0009..U+000D, U+0020, U+0085, U+00A0,
\* U+1680, U+2000..U+200A, U+2028, U+2029, U+202F, U+205F, U+3000).
IsSpace(c) ==
  \/ c \in 9..13
  \/ c \in {32, 133, 160, 5760, 8232, 8233, 8239, 8287, 12288}
  \/ c \in 8192..8202

\* char::to_digit(10): the ASCII digits '0'..'9'.
IsDigit(c) == c \in 48..57
DigitVal(c) == c - 48

RECURSIVE TrimStart(_)
TrimStart(s) ==
  IF s # << >> /\ IsSpace(Head(s)) THEN TrimStart(Tail(s)) ELSE s

RECURSIVE TrimEnd(_)
TrimEnd(s) ==
  IF s # << >> /\ IsSpace(s[Len(s)])
  THEN TrimEnd(SubSeq(s, 1, Len(s) - 1)) ELSE s

\* str::trim
Trim(s) == TrimEnd(TrimStart(s))

\* The digits of a non-negative i32 literal, most significant first; acc is
\* the value so far (checked_mul(10), then checked_add(digit)).  A
\* non-digit, or a value above i32::MAX, is a parse error.
RECURSIVE ParseDigits(_, _)
ParseDigits(s, acc) ==
  IF s = << >> THEN [ok |-> TRUE, val |-> acc]
  ELSE IF ~IsDigit(Head(s)) THEN [ok |-> FALSE, val |-> 0]
  ELSE IF acc > (I32_MAX - DigitVal(Head(s))) \div 10
       THEN [ok |-> FALSE, val |-> 0]
  ELSE ParseDigits(Tail(s), acc * 10 + DigitVal(Head(s)))

\* The digits after a '-': the value is accumulated downwards
\* (checked_mul(10), then checked_sub(digit)), so i32::MIN parses.  A
\* non-digit, or a value below i32::MIN, is a parse error.
RECURSIVE ParseDigitsNeg(_, _)
ParseDigitsNeg(s, acc) ==
  IF s = << >> THEN [ok |-> TRUE, val |-> acc]
  ELSE IF ~IsDigit(Head(s)) THEN [ok |-> FALSE, val |-> 0]
  ELSE IF acc < (I32_MIN + DigitVal(Head(s)) + 9) \div 10
       THEN [ok |-> FALSE, val |-> 0]
  ELSE ParseDigitsNeg(Tail(s), acc * 10 - DigitVal(Head(s)))

\* str::parse::<i32>: an optional sign ('-' is 45, '+' is 43), then at
\* least one digit.
ParseI32(s) ==
  IF s = << >> THEN [ok |-> FALSE, val |-> 0]
  ELSE IF Head(s) \in {45, 43}
       THEN IF Tail(s) = << >> THEN [ok |-> FALSE, val |-> 0]
            ELSE IF Head(s) = 45 THEN ParseDigitsNeg(Tail(s), 0)
            ELSE ParseDigits(Tail(s), 0)
  ELSE ParseDigits(s, 0)

UnwrapOr(r, d) == IF r.ok THEN r.val ELSE d

\* contents.trim().parse().unwrap_or(-1)
PackageOf(contents) == UnwrapOr(ParseI32(Trim(contents)), -1)

\* Whether v[package as usize] is inside a vector of length len.  A negative
\* i32 cast to usize is at least 2^63, beyond every vector.
IndexInBounds(idx, len) == idx >= 0 /\ idx < len

\* a & b for naturals.
RECURSIVE BitAnd(_, _)
BitAnd(a, b) ==
  IF a = 0 \/ b = 0 THEN 0
  ELSE (a % 2) * (b % 2) + 2 * BitAnd(a \div 2, b \div 2)

ShiftRight(a, k) == a \div Pow2(k)

\* The low 16 bits of `x as u64` (x an i64): the two's complement of x
\* modulo 2^16.  The mask lies below 2^16, so the bits above do not reach
\* the result of the `&`.
AsU64Low(x) == x % Pow2(16)

\* (core_energy_units & AMD_ENERGY_UNIT_MASK) >> 8
EnergyUnitNoMask(raw) == ShiftRight(AsU64Low(raw), 8)
EnergyUnit(raw) == ShiftRight(BitAnd(AsU64Low(raw), AMD_ENERGY_UNIT_MASK), 8)

\* ---------------------------------------------------------------- startup
Readable(k) == k < MaxCpuFiles /\ topo[k + 1].readable

Init ==
  /\ pc = "load_config"
  /\ cfg \in ConfigStates
  /\ topo \in Topologies
  /\ i = 0
  /\ package_map = << >>
  /\ total_cores = 0
  /\ cores = 0
  /\ cycle = 0
  /\ files = << >>
  /\ energy_unit_d = Nil
  /\ core_energy_raw = Nil
  /\ core_energy = << >>
  /\ package = << >>
  /\ core_energy_delta = << >>
  /\ package_delta = << >>
  /\ metrics = Nil
  /\ reads = << >>
  /\ sampleRes = None
  /\ workerRes = None
  /\ failed = FALSE
  /\ uploadCalls = 0
  /\ uploadRes = None
  /\ written = 0
  /\ panicAt = None
  /\ exitCode = Nil

sampleVars == << files, energy_unit_d, core_energy_raw, core_energy, package,
                 core_energy_delta, package_delta, reads >>
cycleVars == << metrics, sampleRes, workerRes, failed, uploadCalls,
                uploadRes, written >>
detectVars == << i, package_map, total_cores, cores >>

\* What load_config may leave of the file it found missing: create_dir_all
\* or File::create fails and the file is still missing; File::create
\* succeeds and write_all fails, which leaves a prefix of the template,
\* malformed for the next start unless only the end of the last line is
\* cut off; or the template is written, a well-formed file.
ConfigAfterCreate(outcome) ==
  CASE outcome = "create_failed" -> {"missing"}
    [] outcome = "write_failed" -> {"malformed", "ok"}
    [] outcome = "written" -> {"ok"}

\* A panic: the stack unwinds and the process ends with code 101.
Panic(where) ==
  /\ pc' = "panicked" /\ panicAt' = where /\ exitCode' = Some(101)

\* load_config finds no file.  It creates the directory and the file and
\* writes the template, prints "Created example config" and calls exit(1);
\* when creating or writing fails, `?` returns the error, main returns it
\* and the process ends with code 1 as well; when the println! cannot write
\* to stdout, it panics.
LoadConfigMissing ==
  /\ pc = "load_config" /\ cfg = "missing"
  /\ \E outcome \in CreateOutcomes, printed \in BOOLEAN :
       /\ cfg' \in ConfigAfterCreate(outcome)
       /\ IF outcome = "written" /\ ~printed
          THEN Panic("load_config")
          ELSE pc' = "exited" /\ exitCode' = Some(1) /\ UNCHANGED panicAt
  /\ UNCHANGED << topo, cycle, detectVars, sampleVars, cycleVars >>

\* toml::from_str fails: main returns the error.
LoadConfigMalformed ==
  /\ pc = "load_config" /\ cfg = "malformed"
  /\ pc' = "exited" /\ exitCode' = Some(1)
  /\ UNCHANGED << cfg, topo, cycle, panicAt, detectVars, sampleVars, cycleVars >>

\* The configuration loads and is stored in CONFIG; main prints "Loaded
\* config" (the println! panics when stdout cannot be written) and calls
\* detect_packages.
LoadConfigOk ==
  /\ pc = "load_config" /\ cfg = "ok"
  /\ \E printed \in BOOLEAN :
       IF printed
       THEN /\ pc' = "detect"
            /\ package_map' = [k \in 1..MAX_PACKAGES |-> -1]
            /\ total_cores' = 0
            /\ i' = 0
            /\ UNCHANGED << panicAt, exitCode >>
       ELSE /\ Panic("main")
            /\ UNCHANGED << package_map, total_cores, i >>
  /\ UNCHANGED << cfg, topo, cores, cycle, sampleVars, cycleVars >>

\* One iteration of detect_packages' loop on a readable file.
DetectRead ==
  /\ pc = "detect" /\ i < MAX_CPUS /\ Readable(i)
  /\ LET pkg == PackageOf(topo[i + 1].contents)
     IN /\ IndexInBounds(pkg, Len(package_map))
        /\ package_map' = IF package_map[pkg + 1] = -1
                          THEN [package_map EXCEPT ![pkg + 1] = i]
                          ELSE package_map
  /\ total_cores' = i + 1
  /\ i' = i + 1
  /\ UNCHANGED << pc, cfg, topo, cores, cycle, panicAt, exitCode, sampleVars, cycleVars >>

\* package_map[package as usize] is out of range: the index panics.
DetectPanic ==
  /\ pc = "detect" /\ i < MAX_CPUS /\ Readable(i)
  /\ ~IndexInBounds(PackageOf(topo[i + 1].contents), Len(package_map))
  /\ Panic("detect_packages")
  /\ package_map' = << >>
  /\ UNCHANGED << cfg, topo, i, total_cores, cores, cycle, sampleVars, cycleVars >>

\* The loop ends (first unreadable index, or MAX_CPUS reached):
\* detect_packages returns Ok(total_cores).  It has no Err return, so
\* main's Err branch is never taken.
DetectReturn ==
  /\ pc = "detect" /\ ~(i < MAX_CPUS /\ Readable(i))
  /\ package_map' = << >>
  /\ pc' = "detected"
  /\ UNCHANGED << cfg, topo, i, total_cores, cores, cycle, panicAt, exitCode,
                  sampleVars, cycleVars >>

\* main prints "Detected n cores" (the println! panics when stdout cannot
\* be written), stores the count in cores and enters the loop.
MainDetected ==
  /\ pc = "detected"
  /\ \E printed \in BOOLEAN :
       IF printed
       THEN /\ cores' = total_cores
            /\ pc' = "loop"
            /\ UNCHANGED << panicAt, exitCode >>
       ELSE /\ Panic("main")
            /\ UNCHANGED cores
  /\ UNCHANGED << cfg, topo, i, package_map, total_cores, cycle, sampleVars,
                  cycleVars >>

\* ------------------------------------------------------ rapl_msr_amd_core
\* The sampled core set is 0 .. total_cores/2 - 1.
SampledCores(total) == total \div 2

\* vec![0.0; n]
ZeroVec(n) == [k \in 1..n |-> Zero]

\* A File opened on /dev/cpu/<core>/msr by the current call.
Handle(core) == [core |-> core, cycle |-> cycle]

\* What is left of the Vec<File> when rapl_msr_amd_core returns or unwinds:
\* the vector is a local, so every File in it is closed.
DropFilesLeak(fs) == fs
DropFiles(fs) == << >>

\* worker: `rapl_msr_amd_core(total_cores)?` returns on Err, else goes on to
\* upload.
AfterSample(res) == IF res = "Err" THEN "sleep" ELSE "upload"

\* worker: whatever upload returned, worker logs and returns Ok(()), and
\* main goes to its sleep.
AfterUpload(res) == "sleep"

\* (core_energy_delta[i] - core_energy[i]) * 10.0, with k = i + 1
CoreWattsWrongIndex(ce, ced, k) == FMul(FSub(ced[k], ce[1]), Ten)
CoreWatts(ce, ced, k) == FMul(FSub(ced[k], ce[k]), Ten)

\* (package_delta[0] - package[0]) * 10.0
PackageWattsLastCore(pkg, pkgd) == FMul(FSub(pkgd[Len(pkgd)], pkg[Len(pkg)]), Ten)
PackageWatts(pkg, pkgd) == FMul(FSub(pkgd[1], pkg[1]), Ten)

\* sum = 0.0; for each core in order: sum += watts
RECURSIVE SumFrom(_, _, _)
SumFrom(ws, k, acc) ==
  IF k > Len(ws) THEN acc ELSE SumFrom(ws, k + 1, FAdd(acc, ws[k]))

\* The PowerMetrics value built at the end of rapl_msr_amd_core.
PowerMetrics(ce, ced, pkg, pkgd) ==
  LET core_watts == [k \in 1..Len(ce) |-> CoreWatts(ce, ced, k)]
  IN [core_watts |-> core_watts,
      core_sum |-> SumFrom(core_watts, 1, Zero),
      package_watts |-> PackageWatts(pkg, pkgd)]

\* The record of one read_msr call.
ReadRec(h, reg, val) ==
  [core |-> h.core, reg |-> reg, val |-> val, hcycle |-> h.cycle]

\* main's loop calls worker, which calls rapl_msr_amd_core: the vectors are
\* allocated and the open loop starts.
EnterSample ==
  /\ pc = "loop" /\ cycle < MaxCycles
  /\ cycle' = cycle + 1
  /\ core_energy' = ZeroVec(SampledCores(cores))
  /\ core_energy_delta' = ZeroVec(SampledCores(cores))
  /\ package' = ZeroVec(SampledCores(cores))
  /\ package_delta' = ZeroVec(SampledCores(cores))
  /\ files' = << >>
  /\ energy_unit_d' = Nil
  /\ core_energy_raw' = Nil
  /\ reads' = << >>
  /\ metrics' = Nil /\ sampleRes' = None /\ workerRes' = None
  /\ failed' = FALSE /\ uploadCalls' = 0 /\ uploadRes' = None /\ written' = 0
  /\ i' = 0
  /\ pc' = "open"
  /\ UNCHANGED << cfg, topo, package_map, total_cores, cores, panicAt, exitCode >>

\* An open or a read failed: `?` returns the error from rapl_msr_amd_core
\* (its locals are dropped), worker returns it too, and main prints "Worker
\* failed" and goes to its sleep; when the eprintln! cannot write to
\* stderr, it panics.
AbortSample(printed) ==
  /\ files' = DropFiles(files)
  /\ energy_unit_d' = Nil
  /\ core_energy_raw' = Nil
  /\ core_energy' = << >> /\ core_energy_delta' = << >>
  /\ package' = << >> /\ package_delta' = << >>
  /\ metrics' = Nil
  /\ sampleRes' = "Err"
  /\ workerRes' = "Err"
  /\ failed' = TRUE
  /\ IF printed
     THEN pc' = AfterSample("Err") /\ UNCHANGED << panicAt, exitCode >>
     ELSE Panic("main")
  /\ UNCHANGED << cfg, topo, detectVars, cycle, uploadCalls, uploadRes,
                  written >>

\* files.push(open_msr(i)?), the open succeeding
OpenOk ==
  /\ pc = "open" /\ i < SampledCores(cores)
  /\ files' = Append(files, Handle(i))
  /\ i' = i + 1
  /\ UNCHANGED << pc, cfg, topo, package_map, total_cores, cores, cycle,
                  energy_unit_d, core_energy_raw, core_energy, package,
                  core_energy_delta, package_delta, reads, cycleVars,
                  panicAt, exitCode >>

\* open_msr(i) fails and prints "Failed to open MSR"; the error goes up to
\* main.
OpenFail ==
  /\ pc = "open" /\ i < SampledCores(cores)
  /\ reads' = reads
  /\ \E printed \in BOOLEAN : AbortSample(printed)

\* open_msr(i) fails and its eprintln! cannot write to stderr: it panics
\* inside open_msr, before rapl_msr_amd_core returns; the handles opened so
\* far are dropped by the unwinding.
OpenFailPanic ==
  /\ pc = "open" /\ i < SampledCores(cores)
  /\ files' = DropFiles(files)
  /\ core_energy' = << >> /\ core_energy_delta' = << >>
  /\ package' = << >> /\ package_delta' = << >>
  /\ failed' = TRUE
  /\ Panic("open_msr")
  /\ UNCHANGED << cfg, topo, detectVars, cycle, energy_unit_d,
                  core_energy_raw, reads, metrics, sampleRes, workerRes,
                  uploadCalls, uploadRes, written >>

\* The open loop is over.
OpenDone ==
  /\ pc = "open" /\ i = SampledCores(cores)
  /\ pc' = "unit"
  /\ UNCHANGED << cfg, topo, detectVars, cycle, sampleVars, cycleVars,
                  panicAt, exitCode >>

\* files[0] on an empty vector: the index panics and the process ends.
UnitPanic ==
  /\ pc = "unit" /\ Len(files) = 0
  /\ Panic("rapl_msr_amd_core")
  /\ files' = DropFiles(files)
  /\ core_energy' = << >> /\ core_energy_delta' = << >>
  /\ package' = << >> /\ package_delta' = << >>
  /\ UNCHANGED << cfg, topo, detectVars, cycle, energy_unit_d,
                  core_energy_raw, reads, cycleVars >>

\* read_msr(&mut files[0], AMD_MSR_PWR_UNIT) succeeds; the unit is decoded.
UnitRead ==
  /\ pc = "unit" /\ Len(files) > 0
  /\ \E raw \in PwrUnitValues :
       /\ reads' = Append(reads, ReadRec(files[1], AMD_MSR_PWR_UNIT, Some(raw)))
       /\ energy_unit_d' = Some(PowfHalf(EnergyUnit(raw)))
  /\ i' = 0
  /\ pc' = "pass1"
  /\ UNCHANGED << cfg, topo, package_map, total_cores, cores, cycle, files,
                  core_energy_raw, core_energy, package, core_energy_delta,
                  package_delta, cycleVars, panicAt, exitCode >>

\* read_msr(&mut files[0], AMD_MSR_PWR_UNIT) fails
UnitReadFail ==
  /\ pc = "unit" /\ Len(files) > 0
  /\ reads' = Append(reads, ReadRec(files[1], AMD_MSR_PWR_UNIT, Nil))
  /\ \E printed \in BOOLEAN : AbortSample(printed)

\* read_msr(&mut files[i], AMD_MSR_CORE_ENERGY) succeeds, in either pass
ReadCoreOk ==
  /\ pc \in {"pass1", "pass2"} /\ i < SampledCores(cores)
  /\ core_energy_raw = Nil
  /\ \E raw \in RawValues :
       /\ reads' = Append(reads, ReadRec(files[i + 1], AMD_MSR_CORE_ENERGY, Some(raw)))
       /\ core_energy_raw' = Some(AsF64(raw))
  /\ UNCHANGED << pc, cfg, topo, detectVars, cycle, files, energy_unit_d,
                  core_energy, package, core_energy_delta, package_delta,
                  cycleVars, panicAt, exitCode >>

\* read_msr(&mut files[i], AMD_MSR_PACKAGE_ENERGY) succeeds, in either pass;
\* both scaled readings are stored and the loop moves to the next core.
ReadPackageOk ==
  /\ pc \in {"pass1", "pass2"} /\ i < SampledCores(cores)
  /\ core_energy_raw # Nil
  /\ \E raw \in RawValues :
       /\ reads' = Append(reads, ReadRec(files[i + 1], AMD_MSR_PACKAGE_ENERGY, Some(raw)))
       /\ IF pc = "pass1"
          THEN /\ core_energy' = [core_energy EXCEPT
                                    ![i + 1] = FMul(Get(core_energy_raw), Get(energy_unit_d))]
               /\ package' = [package EXCEPT
                                ![i + 1] = FMul(AsF64(raw), Get(energy_unit_d))]
               /\ UNCHANGED << core_energy_delta, package_delta >>
          ELSE /\ core_energy_delta' = [core_energy_delta EXCEPT
                                    ![i + 1] = FMul(Get(core_energy_raw), Get(energy_unit_d))]
               /\ package_delta' = [package_delta EXCEPT
                                ![i + 1] = FMul(AsF64(raw), Get(energy_unit_d))]
               /\ UNCHANGED << core_energy, package >>
  /\ core_energy_raw' = Nil
  /\ i' = i + 1
  /\ UNCHANGED << pc, cfg, topo, package_map, total_cores, cores, cycle,
                  files, energy_unit_d, cycleVars, panicAt, exitCode >>

\* A read of an energy counter fails, in either pass
ReadFail ==
  /\ pc \in {"pass1", "pass2"} /\ i < SampledCores(cores)
  /\ reads' = Append(reads,
                ReadRec(files[i + 1],
                        IF core_energy_raw = Nil THEN AMD_MSR_CORE_ENERGY
                        ELSE AMD_MSR_PACKAGE_ENERGY,
                        Nil))
  /\ \E printed \in BOOLEAN : AbortSample(printed)

\* The first pass is over.
Pass1Done ==
  /\ pc = "pass1" /\ i = SampledCores(cores)
  /\ pc' = "window"
  /\ UNCHANGED << cfg, topo, detectVars, cycle, sampleVars, cycleVars,
                  panicAt, exitCode >>

\* thread::sleep(100 ms), then the second pass starts.
WindowSleep ==
  /\ pc = "window"
  /\ i' = 0
  /\ pc' = "pass2"
  /\ UNCHANGED << cfg, topo, package_map, total_cores, cores, cycle,
                  sampleVars, cycleVars, panicAt, exitCode >>

\* The second pass is over: the watts are computed, rapl_msr_amd_core
\* returns Ok(PowerMetrics) and its locals are dropped.
SampleReturn ==
  /\ pc = "pass2" /\ i = SampledCores(cores)
  /\ metrics' = Some(PowerMetrics(core_energy, core_energy_delta, package, package_delta))
  /\ sampleRes' = "Ok"
  /\ files' = DropFiles(files)
  /\ energy_unit_d' = Nil
  /\ core_energy' = << >> /\ core_energy_delta' = << >>
  /\ package' = << >> /\ package_delta' = << >>
  /\ pc' = AfterSample("Ok")
  /\ UNCHANGED << cfg, topo, detectVars, cycle, core_energy_raw, reads,
                  workerRes, failed, uploadCalls, uploadRes, written,
                  panicAt, exitCode >>

\* ------------------------------------------------------- upload and loop
\* Points of the cycle the sink may hold once client.write has returned:
\* both after Ok; after Err the sink is outside the program and may have
\* taken none, one or both of them.
PointsAccepted(res) == IF res = "ok" THEN {2} ELSE 0..2

\* upload has returned Err: worker prints "Upload failed" and returns
\* Ok(()), and main goes to its sleep; when the eprintln! cannot write to
\* stderr, it panics inside worker.
UploadFailed(res, printed) ==
  IF printed
  THEN /\ workerRes' = "Ok"
       /\ pc' = AfterUpload(res)
       /\ UNCHANGED << panicAt, exitCode >>
  ELSE /\ Panic("worker")
       /\ UNCHANGED workerRes

\* upload(metrics) is called and building a point fails: `?` returns the
\* error before anything is sent, the metrics are dropped with upload's
\* frame.
UploadBuildFail ==
  /\ pc = "upload"
  /\ uploadCalls' = uploadCalls + 1
  /\ uploadRes' = "build_err"
  /\ metrics' = Nil
  /\ \E printed \in BOOLEAN : UploadFailed("build_err", printed)
  /\ UNCHANGED << cfg, topo, detectVars, cycle, sampleVars, sampleRes,
                  failed, written >>

\* upload(metrics) is called, takes the CONFIG lock, builds both points and
\* starts client.write: the task is suspended at the await with the write
\* in flight.  The metrics, moved into upload, live until it returns.  No
\* other task exists, so nothing runs meanwhile.
UploadWriteStart ==
  /\ pc = "upload"
  /\ uploadCalls' = uploadCalls + 1
  /\ pc' = "writing"
  /\ UNCHANGED << cfg, topo, detectVars, cycle, sampleVars, metrics,
                  sampleRes, workerRes, failed, uploadRes, written, panicAt,
                  exitCode >>

\* client.write(...).await completes, with Ok or Err; upload returns and
\* its frame (metrics, lock guard) is dropped.  After Ok worker returns
\* Ok(()) without printing.
UploadWriteDone ==
  /\ pc = "writing"
  /\ \E res \in WriteOutcomes :
       /\ uploadRes' = res
       /\ \E n \in PointsAccepted(res) : written' = written + n
       /\ IF res = "ok"
          THEN /\ workerRes' = "Ok"
               /\ pc' = AfterUpload(res)
               /\ UNCHANGED << panicAt, exitCode >>
          ELSE \E printed \in BOOLEAN : UploadFailed(res, printed)
  /\ metrics' = Nil
  /\ UNCHANGED << cfg, topo, detectVars, cycle, sampleVars, sampleRes,
                  failed, uploadCalls >>

\* tokio::time::sleep(10 s), then the loop starts over.
Sleep10s ==
  /\ pc = "sleep"
  /\ pc' = "loop"
  /\ UNCHANGED << cfg, topo, detectVars, cycle, sampleVars, cycleVars,
                  panicAt, exitCode >>

Next ==
  \/ LoadConfigMissing \/ LoadConfigMalformed \/ LoadConfigOk
  \/ DetectRead \/ DetectPanic \/ DetectReturn \/ MainDetected
  \/ EnterSample
  \/ OpenOk \/ OpenFail \/ OpenFailPanic \/ OpenDone
  \/ UnitPanic \/ UnitRead \/ UnitReadFail
  \/ ReadCoreOk \/ ReadPackageOk \/ ReadFail
  \/ Pass1Done \/ WindowSleep \/ SampleReturn
  \/ UploadBuildFail \/ UploadWriteStart \/ UploadWriteDone \/ Sleep10s

Spec == Init /\ [][Next]_vars

\* ================================================================ claims
InSample == pc \in {"open", "unit", "pass1", "window", "pass2"}

\* main has reached its loop.
LoopEntered == pc = "loop" \/ cycle > 0

\* The read_msr calls of the current cycle on one register of one core.
ReadsOf(core, reg) ==
  LET Test(r) == r.core = core /\ r.reg = reg IN SelectSeq(reads, Test)

AnyReadFailed == \E k \in 1..Len(reads) : reads[k].val = Nil

\* The index of the first unreadable topology file.
FirstUnreadable ==
  CHOOSE n \in 0..MaxCpuFiles :
    ~Readable(n) /\ \A k \in 0..(n - 1) : Readable(k)

\* C1 (as claimed): once an open or a read (power unit, first pass or second
\* pass) has failed in a cycle, rapl_msr_amd_core has returned an error,
\* there is no PowerMetrics value, upload has not been called and nothing
\* reached the sink in that cycle, nothing panicked, and the task is at the
\* inter-cycle sleep or back at the top of the loop.
C1_CycleAbort ==
  (failed \/ AnyReadFailed) =>
     /\ sampleRes = "Err"
     /\ metrics = Nil
     /\ uploadCalls = 0 /\ written = 0
     /\ panicAt = None
     /\ pc \in {"sleep", "loop"}

\* C2 (as claimed): a sample call on an empty core set does not panic.
C2_ZeroCoreNoOp ==
  (cycle > 0 /\ SampledCores(cores) = 0) => panicAt = None

\* C3 (as claimed): upload is called at most once per cycle; once it has
\* failed (point build error or write error) worker has returned Ok, the
\* metrics are gone, nothing panicked, and the task is at the inter-cycle
\* sleep or back at the top of the loop; no metrics are kept between
\* cycles.
C3_PublishFailureNonFatal ==
  /\ uploadCalls <= 1
  /\ uploadRes \in {"build_err", "write_err"} =>
       /\ workerRes = "Ok"
       /\ uploadCalls = 1
       /\ metrics = Nil
       /\ panicAt = None
       /\ pc \in {"sleep", "loop"}
  /\ pc \in {"sleep", "loop"} => metrics = Nil

\* load_config found the configuration missing or malformed: it is about to,
\* or the process has ended for it (exit code 1 has no other cause).
ConfigError ==
  \/ pc = "load_config" /\ cfg # "ok"
  \/ exitCode = Some(1)

\* C4 (as claimed): with the configuration missing or malformed, or with
\* topology index 0 unreadable, no sample call and no upload call happens.
C4_BootstrapFatal ==
  (ConfigError \/ ~Readable(0)) => (cycle = 0 /\ uploadCalls = 0)

\* C5 (as claimed): whatever the files hold, detect_packages does not panic
\* and returns the index of the first unreadable file.
C5_DetectCount ==
  /\ panicAt # "detect_packages"
  /\ pc = "detected" => total_cores = FirstUnreadable

\* C6 (as claimed): once the loop is entered the task never ends, and an
\* upload starts, and its write is in flight, only after the sample of its
\* cycle returned metrics and while no sample is running.
C6_NoTerminalState ==
  /\ LoopEntered => pc \notin {"panicked", "exited"}
  /\ pc \in {"upload", "writing"} =>
       (sampleRes = "Ok" /\ metrics # Nil /\ files = << >>)

\* C7: the package watts of a successful sample are (second package reading
\* of core 0 - first package reading of core 0) * 10 in units of 2^-E, a
\* function of core 0's two package readings and the unit alone.
C7_PackageWattSelection ==
  metrics # Nil =>
    LET p == ReadsOf(0, AMD_MSR_PACKAGE_ENERGY)
        E == EnergyUnit(Get(reads[1].val))
    IN /\ Len(p) = 2
       /\ Get(metrics).package_watts =
            Norm([m |-> (Get(p[2].val) - Get(p[1].val)) * 10, e |-> 0 - E])

\* C7 witness: a successful sample over two cores whose package deltas
\* differ.
C7_Witness ==
  /\ metrics # Nil /\ SampledCores(cores) = 2
  /\ LET p0 == ReadsOf(0, AMD_MSR_PACKAGE_ENERGY)
         p1 == ReadsOf(1, AMD_MSR_PACKAGE_ENERGY)
     IN Get(p0[2].val) - Get(p0[1].val) # Get(p1[2].val) - Get(p1[1].val)

\* Every sampled core's second core-energy reading equals its first.
FlatCounters ==
  \A c \in 0..(SampledCores(cores) - 1) :
    LET r == ReadsOf(c, AMD_MSR_CORE_ENERGY)
    IN Len(r) = 2 /\ r[1].val = r[2].val

\* C8: in a successful sample with flat core-energy counters every entry
\* of core_watts is 0 and core_sum is 0.
C8_FlatCounter ==
  (metrics # Nil /\ FlatCounters) =>
     /\ Len(Get(metrics).core_watts) = SampledCores(cores)
     /\ \A k \in 1..Len(Get(metrics).core_watts) :
          Get(metrics).core_watts[k] = Zero
     /\ Get(metrics).core_sum = Zero

\* C8 witness: a successful flat sample over two cores whose counters stand
\* at different values, with a unit other than 1.
C8_Witness ==
  /\ metrics # Nil /\ FlatCounters /\ SampledCores(cores) = 2
  /\ ReadsOf(0, AMD_MSR_CORE_ENERGY)[1].val # ReadsOf(1, AMD_MSR_CORE_ENERGY)[1].val
  /\ EnergyUnit(Get(reads[1].val)) = 10

\* Bits 8-12 of a raw register value.
Bits8to12(raw) == (raw \div 256) % 32

\* C9: the exponent is bits 8-12 of the raw power-unit value, lies in
\* 0..31, and the unit is 2^-exponent (raw 0x0A00: exponent 10, unit
\* 1/1024); the power-unit register is read once per cycle, through the
\* handle of core 0, before every energy counter.
C9_UnitDecoding ==
  /\ energy_unit_d # Nil =>
       /\ Len(reads) >= 1 /\ reads[1].val # Nil
       /\ LET raw == Get(reads[1].val)
          IN /\ Bits8to12(raw) \in 0..31
             /\ energy_unit_d = Some([m |-> 1, e |-> 0 - Bits8to12(raw)])
             /\ raw = 2560 =>
                  /\ energy_unit_d = Some([m |-> 1, e |-> 0 - 10])
                  /\ FMul(Get(energy_unit_d), AsF64(1024)) = AsF64(1)
  /\ \A k \in 1..Len(reads) :
       /\ (reads[k].reg = AMD_MSR_PWR_UNIT) <=> (k = 1)
       /\ (k = 1 => reads[k].core = 0)

\* C9 witness: the second pass runs with the unit decoded from 0xEAFF.
C9_Witness ==
  /\ pc = "pass2" /\ Len(reads) > 1
  /\ reads[1].val = Some(60159)
  /\ energy_unit_d = Some(PowfHalf(10))

\* C10: outside a sample call no register handle is open, and every handle
\* held or read through belongs to the current cycle.
C10_HandlesCycleScoped ==
  /\ ~InSample => files = << >>
  /\ \A k \in 1..Len(files) : files[k] = [core |-> k - 1, cycle |-> cycle]
  /\ \A k \in 1..Len(reads) : reads[k].hcycle = cycle

\* C10 witness: in the second cycle two handles were open and a read of the
\* second pass failed; the task is at the inter-cycle sleep.
C10_Witness ==
  /\ pc = "sleep" /\ cycle = 2 /\ failed /\ SampledCores(cores) = 2
  /\ Len(reads) > 5

====
